---- MODULE Spec2Model ----
(***************************************************************************)
(* Model of the Confluence PDF exporter: the orchestrator main() of        *)
(* src/src/config.ts (history ledger, discovery, to-do filter, export      *)
(* loop, browser teardown) and the two exportPageRobust implementations    *)
(* (the UI click-through of src/unnamed/part_002 and the direct-endpoint   *)
(* download of src/src/exporter.ts).                                       *)
(*                                                                         *)
(* Spec is main() with the exporter.  Some functions are also applied on   *)
(* their own to bounded inputs: from src/src/crawler.ts the listing loop   *)
(* of getSpacePages (SpecListing), its space key and space name            *)
(* (SpecSpace), the list either discovery strategy returns                 *)
(* (SpecDiscoveryList) and the scrolling loop (SpecScroll, with weak       *)
(* fairness of the loop's step); the artifact directory of part_002        *)
(* (SpecBreadcrumbs); and the three per-page exports, the legacy           *)
(* exportPage of src/src/exporter.ts included (SpecExport).                *)
(*                                                                         *)
(* A page is identified by its url.  The process can be run again and      *)
(* again; what survives a run is the file system (the ledger file, the     *)
(* directories, the exported artifacts).                                   *)
(***************************************************************************)
EXTENDS Integers, Sequences, FiniteSets, TLC

\* ------------------------------------------------------------------ bounds

\* Longest page list the remote listing returns.
MaxPages == 2

\* Longest text of a header, a title part or a breadcrumb link.
MaxText == 2

\* Most links in the breadcrumb bar.
MaxCrumbs == 2

\* ------------------------------------------------------------------ domains

\* Page urls.  The first embeds a numeric page id (/pages/<id>/...), the
\* second is a legacy /display/ link without one.
Urls == {"/pages/1/A", "/display/B"}

\* Output paths an export can compute (directory + sanitized file name).
Paths == {"p1", "p2"}

\* The two exportPageRobust implementations of the repository.
Flows == {"ui", "direct"}

\* Value stored under a key of the ledger object.
HVals == {"absent", "false", "true"}

\* README configuration sample: maxRetries: 3
maxRetries == 3

EmptyHistory == [u \in Urls |-> "absent"]

NoFiles == [p \in Paths |-> "none"]

\* All sequences over S of length at most n.
SeqsUpTo(S, n) == UNION {[1..k -> S] : k \in 0..n}

VARIABLES
    \* --- file system (survives the process)
    disk,         \* ledger file: [st: missing | corrupt | ok, map]
    files,        \* artifact at each output path: "none" or the url it was exported for
    dirs,         \* how much of the output tree exists: none | root | space
    authFile,     \* auth.json exists
    \* --- remote service and configuration (fixed)
    remote,       \* entries the listing's responses deliver, in order (an entry
                  \* comes twice when the listing shifts between two requests)
    pathOf,       \* output path the export computes for each page
    flow,         \* which exportPageRobust is linked in
    retryOnError, \* README option retryOnError
    \* --- one run of main()
    pc,           \* position in main()
    browser,      \* none | open | closed
    history,      \* in-memory ledger
    pages,        \* discovered pages
    pagesToExport,\* filtered to-do list
    idx,          \* 1-based position of the for-of loop
    successCount,
    failCount,
    fatal,        \* which statement threw out of main's straight-line code
    \* --- one invocation of exportPageRobust
    epc,          \* position in exportPageRobust
    success,      \* its return value
    trail,        \* steps it performed, in order
    attempts,     \* how many times it started the sequence (navigations)
    existed,      \* an artifact was at the computed output path when it was computed
    \* --- history of the run, kept for the properties
    h0,           \* ledger content found on disk when the run started
    invoked,      \* urls exportPageRobust was called with, in order
    outcomes,     \* its return values, in order
    prevRun,      \* how the previous run ended: none | incomplete | complete
    discErr,      \* text of the error getSpacePages threw in this run, "none" if it has not
    \* --- a library function applied on its own (SpecListing, SpecSpace, SpecBreadcrumbs)
    fcall         \* [fn, in, done, out]; [fn |-> "none"] while main() is what runs

vars == <<disk, files, dirs, authFile, remote, pathOf, flow, retryOnError,
          pc, browser, history, pages, pagesToExport, idx, successCount,
          failCount, fatal, epc, success, trail, attempts, existed,
          h0, invoked, outcomes, prevRun, discErr, fcall>>

fsVars == <<disk, files, dirs, authFile>>
envVars == <<remote, pathOf, flow, retryOnError, fcall>>
runVars == <<browser, history, pages, pagesToExport, idx, successCount, failCount, fatal>>
expVars == <<epc, success, trail, attempts, existed>>
logVars == <<h0, invoked, outcomes, prevRun>>

\* ------------------------------------------------------------------ ledger

\* Mutant: a ledger that cannot be read blocks every page.
loadHistoryBlocking(d) == IF d.st = "ok" THEN d.map ELSE [u \in Urls |-> "true"]

\* JSON.parse(readFileSync) when the file exists and parses, {} otherwise.
loadHistory(d) == IF d.st = "ok" THEN d.map ELSE EmptyHistory

\* Content of the ledger file once writeFileSync(JSON.stringify(history)) returned.
saveHistory(h) == [st |-> "ok", map |-> h]

\* Content of the ledger file when writeFileSync stops between truncating the
\* file (open with flag 'w') and writing the new text: not parsable.
TornFile == [st |-> "corrupt", map |-> EmptyHistory]

\* history[p.url] = true
markDone(h, u) == [h EXCEPT ![u] = "true"]

\* Mutant: only an absent key counts as not done (a key set to false is skipped).
NotDoneAbsentOnly(h, u) == h[u] = "absent"

\* !history[p.url] : undefined and false are falsy
NotDone(h, u) == h[u] \in {"absent", "false"}

\* Mutant: the filter is dropped, every discovered page is exported again.
PagesToExportAll(ps, h) == ps

\* pages.filter(p => !history[p.url])
PagesToExport(ps, h) == SelectSeq(ps, LAMBDA u : NotDone(h, u))

\* Mutant: the run goes on with an empty list.
NothingToExportNever(t) == FALSE

\* if (pagesToExport.length === 0) { ...; return; }
NothingToExport(t) == Len(t) = 0

\* Mutant: the loop is left at the first failed page.
LoopBreaksOnFailure(i, n) == i <= n /\ failCount = 0

\* for (const [index, p] of pagesToExport.entries()): is there a next entry
LoopContinues(i, n) == i <= n

\* Mutant: the loop walks the list from its end.
CandidateAtReversed(t, i) == t[Len(t) + 1 - i]

\* the entry the loop hands to exportPageRobust
CandidateAt(t, i) == t[i]

\* Mutant: the page is marked whatever exportPageRobust returned.
ShouldMarkAlways(ok) == TRUE

\* if (success) { ... history[p.url] = true; saveHistory(history) }
ShouldMark(ok) == ok

\* pageUrl.match(/pages\/(\d+)/)
HasPageId(u) == u = "/pages/1/A"

DiskTrue(u) == disk.st = "ok" /\ disk.map[u] = "true"

\* ------------------------------------------------------------------ discovery (crawler.ts, API version)

\* Text values are sequences of characters.
Str(c) == <<c>>

\* String.prototype.trim
RECURSIVE TrimStart(_)
TrimStart(t) == IF t # <<>> /\ Head(t) = " " THEN TrimStart(Tail(t)) ELSE t

RECURSIVE TrimEnd(_)
TrimEnd(t) ==
    IF t # <<>> /\ t[Len(t)] = " " THEN TrimEnd(SubSeq(t, 1, Len(t) - 1)) ELSE t

Trim(t) == TrimEnd(TrimStart(t))

\* Keys by the place they are read from: the /spaces/ segment of the url, its
\* /display/ segment, the meta tag, the AJS global.
KeyS == Str("S")
KeyD == Str("D")
KeyM == Str("M")
KeyG == Str("G")

\* What stands at the places a space key is looked for.
\*   spaces, display : capture of /spaces\/([^\/]+)/ and /display\/([^\/]+)/ on
\*                     the url, <<>> when the pattern does not match
\*   meta            : is there a meta[name="confluence-space-key"] element, and its content
\*   ajs             : does page.evaluate resolve, and the value of AJS?.params?.spaceKey
KeyInputs ==
    [spaces : {<<>>, KeyS}, display : {<<>>, KeyD},
     meta : {[el |-> FALSE, content |-> <<>>], [el |-> TRUE, content |-> <<>>],
             [el |-> TRUE, content |-> KeyM]},
     ajs : {[ok |-> FALSE, value |-> <<>>], [ok |-> TRUE, value |-> <<>>],
            [ok |-> TRUE, value |-> KeyG]}]

\* match ? match[1] : (matchDisplay ? matchDisplay[1] : '')
getSpaceKey(spaceUrl) ==
    IF spaceUrl.spaces # <<>> THEN spaceUrl.spaces ELSE spaceUrl.display

\* const keyFromVar = await page.evaluate(...) inside try {} catch {}
KeyFromVar(k) == IF k.ajs.ok THEN k.ajs.value ELSE <<>>

\* Determine Space Key.  page.getAttribute waits for the meta element and
\* rejects with a TimeoutError when there is none; that call is in no try block.
SpaceKey(k) ==
    IF getSpaceKey(k) # <<>> THEN [key |-> getSpaceKey(k), error |-> "none"]
    ELSE IF ~k.meta.el THEN [key |-> <<>>, error |-> "TimeoutError"]
    ELSE IF k.meta.content # <<>> THEN [key |-> k.meta.content, error |-> "none"]
    ELSE IF KeyFromVar(k) # <<>> THEN [key |-> KeyFromVar(k), error |-> "none"]
    ELSE [key |-> <<>>, error |-> "Failed to determine Space Key"]

\* const limit = 50
limit == 50

\* Status of a listing response; 0 stands for window.fetch or response.json() throwing.
Statuses == {200, 401, 403, 500, 0}

\* The listing endpoint's answer to ...&limit=${limit}&start=${start}: data.results
ListingSlice(items, start) ==
    SubSeq(items, start + 1, IF start + limit < Len(items) THEN start + limit ELSE Len(items))

\* Mutant: only 401 is taken for an authentication failure.
IsAuthFailure401Only(st) == st = 401

\* response.status === 401 || response.status === 403
IsAuthFailure(st) == st \in {401, 403}

\* Mutant: a full page ends the loop too.
LastPageOrFull(n) == n <= limit

\* if (results.length < limit) break
LastPage(n) == n < limit

\* The while (true) loop of the in-browser fetch, entered with `start`, the
\* entries pushed so far and the offsets requested so far.  statusAt[k] is the
\* status of the k-th response.
\* listingAt[k] is the space's listing at the time of the k-th request.
RECURSIVE FetchLoop(_, _, _, _, _)
FetchLoop(listingAt, statusAt, start, allPages, requests) ==
    LET reqs == Append(requests, start)
        st == statusAt[Len(reqs)]
        results == ListingSlice(listingAt[Len(reqs)], start)
    IN  IF IsAuthFailure(st)
        THEN [error |-> "Authentication failed", pages |-> <<>>, requests |-> reqs]
        ELSE IF st = 0
        THEN [error |-> "Exception during fetch", pages |-> <<>>, requests |-> reqs]
        ELSE IF st # 200
        THEN [error |-> "API Fetch failed", pages |-> <<>>, requests |-> reqs]
        ELSE IF Len(results) = 0
        THEN [error |-> "none", pages |-> allPages, requests |-> reqs]
        ELSE IF LastPage(Len(results))
        THEN [error |-> "none", pages |-> allPages \o results, requests |-> reqs]
        ELSE FetchLoop(listingAt, statusAt, start + limit, allPages \o results, reqs)

\* const pages = await page.evaluate(...); Array.isArray(pages) ? return : throw.
\* error is the text carried by the thrown Error, "none" when pages are returned.
FetchPagesLive(listingAt, statusAt) == FetchLoop(listingAt, statusAt, 0, <<>>, <<>>)

\* The same call on a space whose listing does not change while it is fetched.
FetchPages(items, statusAt) ==
    FetchPagesLive([k \in DOMAIN statusAt |-> items], statusAt)

\* Requests a listing of at most n items can take.
RequestsFor(n) == 1..((n \div limit) + 1)

\* Text of the Error getSpacePages throws, "none" when it returns.
DiscoveryError(k, r) ==
    IF SpaceKey(k).error # "none" THEN SpaceKey(k).error ELSE r.error

\* Mutant: an error object is handed on as an empty page list.
DiscoveryFailsNever(k, r) == FALSE

\* getSpacePages throws: no space key, or the listing gave an error object.
DiscoveryFails(k, r) == SpaceKey(k).error # "none" \/ r.error # "none"

\* let spaceName = "Unknown Space"
UnknownSpace == <<"U", "n", "k", "n", "o", "w", "n", " ", "S", "p", "a", "c", "e">>

\* Extract Space Name: the header's text if there is a header, else the part
\* before the last of the page title split at ' - '; anything thrown on the way
\* leaves the default; then trim; the default itself is replaced by the name
\* the space API gives, or by the key.
\*   nm.header : [state : absent | throws | present, text]  (text <<>> for null or '')
\*   nm.title  : parts of title.split(' - ')
\*   nm.api    : [ok, name] of the /rest/api/space/<key> lookup (ok = FALSE: not ok, or thrown)
SpaceName(nm, spaceKey) ==
    LET found ==
            IF nm.header.state = "throws" THEN UnknownSpace
            ELSE IF nm.header.state = "present"
                 THEN (IF nm.header.text = <<>> THEN UnknownSpace ELSE nm.header.text)
            ELSE IF Len(nm.title) >= 2 THEN nm.title[Len(nm.title) - 1]
            ELSE UnknownSpace
        trimmed == Trim(found)
    IN  IF trimmed = UnknownSpace
        THEN (IF nm.api.ok /\ nm.api.name # <<>> THEN nm.api.name ELSE spaceKey)
        ELSE trimmed

\* getSpacePages(page, spaceUrl): what it returns, or the text of what it throws.
getSpacePages(k, nm, items, statusAt) ==
    IF SpaceKey(k).error # "none"
    THEN [error |-> SpaceKey(k).error, spaceKey |-> <<>>, spaceName |-> <<>>,
          pages |-> <<>>, requests |-> <<>>]
    ELSE LET r == FetchPages(items, statusAt)
         IN  [error |-> r.error, spaceKey |-> SpaceKey(k).key,
              spaceName |-> SpaceName(nm, SpaceKey(k).key),
              pages |-> r.pages, requests |-> r.requests]

NoCall == [fn |-> "none"]

\* ------------------------------------------------------------------ initial state

FileVals == {"none", "old"} \cup Urls

\* The output tree as an earlier use of the tool can have left it: the ledger
\* lives in the output root, the artifacts in the space directory.
Init ==
    /\ remote \in SeqsUpTo(Urls, MaxPages)
    /\ pathOf \in {f \in [Urls -> Paths] : f["/pages/1/A"] = "p1"}
    /\ flow \in Flows
    /\ retryOnError \in BOOLEAN
    /\ authFile \in BOOLEAN
    /\ dirs \in {"none", "root", "space"}
    /\ disk \in {[st |-> "missing", map |-> EmptyHistory], TornFile}
                  \cup {saveHistory(h) : h \in [Urls -> HVals]}
    /\ files \in [Paths -> {"none", "old"}]
    /\ (dirs = "none") => (disk.st = "missing")
    /\ (dirs # "space") => (files = NoFiles)
    /\ pc = "idle"
    /\ browser = "none"
    /\ history = EmptyHistory
    /\ pages = <<>>
    /\ pagesToExport = <<>>
    /\ idx = 1
    /\ successCount = 0
    /\ failCount = 0
    /\ fatal = "none"
    /\ epc = "none"
    /\ success = FALSE
    /\ trail = <<>>
    /\ attempts = 0
    /\ existed = FALSE
    /\ h0 = loadHistory(disk)
    /\ invoked = <<>>
    /\ outcomes = <<>>
    /\ prevRun = "none"
    /\ discErr = "none"
    /\ fcall = NoCall

\* ------------------------------------------------------------------ main()

\* How the run that just ended is remembered by the next one.
EndOfRun ==
    IF pc = "idle" THEN "none"
    ELSE IF pc = "done" /\ fatal = "none" /\ failCount = 0
         THEN (IF successCount > 0 THEN "complete" ELSE "nothingToDo")
         ELSE "incomplete"

\* npm start: a new process runs main() from the top.
StartRun ==
    /\ pc \in {"idle", "done", "crashed"}
    /\ pc' = "ensureDir"
    /\ prevRun' = EndOfRun
    /\ h0' = loadHistory(disk)
    /\ browser' = "none"
    /\ history' = EmptyHistory
    /\ pages' = <<>>
    /\ pagesToExport' = <<>>
    /\ idx' = 1
    /\ successCount' = 0
    /\ failCount' = 0
    /\ fatal' = "none"
    /\ epc' = "none"
    /\ success' = FALSE
    /\ trail' = <<>>
    /\ attempts' = 0
    /\ existed' = FALSE
    /\ invoked' = <<>>
    /\ outcomes' = <<>>
    /\ discErr' = "none"
    /\ UNCHANGED <<fsVars, envVars>>

\* A statement outside the try block threw: main() rejects, nothing is torn down.
Rejects(why) ==
    /\ pc' = "done"
    /\ fatal' = why

\* A statement inside the try block threw: catch logs, finally runs.
Throws(why) ==
    /\ pc' = "finally"
    /\ fatal' = why

\* 0. Ensure Output Directory
EnsureOutputDir ==
    /\ pc = "ensureDir"
    /\ \/ /\ dirs = "none"
          /\ dirs' = "root"
          /\ pc' = "auth"
          /\ UNCHANGED fatal
       \/ /\ dirs = "none"
          /\ Rejects("mkdirRoot")
          /\ UNCHANGED dirs
       \/ /\ dirs # "none"
          /\ pc' = "auth"
          /\ UNCHANGED <<dirs, fatal>>
    /\ UNCHANGED <<disk, files, authFile, envVars, discErr, browser, history, pages,
                   pagesToExport, idx, successCount, failCount, expVars, logVars>>

\* 1. Auth Check: setupAuth() writes auth.json after a manual login.
AuthCheck ==
    /\ pc = "auth"
    /\ \/ /\ ~authFile
          /\ authFile' = TRUE
          /\ pc' = "launch"
          /\ UNCHANGED fatal
       \/ /\ ~authFile
          /\ Rejects("setupAuth")
          /\ UNCHANGED authFile
       \/ /\ authFile
          /\ pc' = "launch"
          /\ UNCHANGED <<authFile, fatal>>
    /\ UNCHANGED <<disk, files, dirs, envVars, discErr, browser, history, pages,
                   pagesToExport, idx, successCount, failCount, expVars, logVars>>

\* const browser = await chromium.launch(...)
Launch ==
    /\ pc = "launch"
    /\ \/ /\ browser' = "open"
          /\ pc' = "context"
          /\ UNCHANGED fatal
       \/ /\ Rejects("launch")
          /\ UNCHANGED browser
    /\ UNCHANGED <<fsVars, envVars, discErr, history, pages, pagesToExport, idx,
                   successCount, failCount, expVars, logVars>>

\* const context = await browser.newContext({storageState: config.authFile, ...})
NewContext ==
    /\ pc = "context"
    /\ \/ /\ pc' = "newPage"
          /\ UNCHANGED fatal
       \/ Rejects("newContext")
    /\ UNCHANGED <<fsVars, envVars, discErr, browser, history, pages, pagesToExport, idx,
                   successCount, failCount, expVars, logVars>>

\* const page = await context.newPage()
NewPage ==
    /\ pc = "newPage"
    /\ \/ /\ pc' = "load"
          /\ UNCHANGED fatal
       \/ Rejects("newPage")
    /\ UNCHANGED <<fsVars, envVars, discErr, browser, history, pages, pagesToExport, idx,
                   successCount, failCount, expVars, logVars>>

\* const history = loadHistory()
LoadHistory ==
    /\ pc = "load"
    /\ history' = loadHistory(disk)
    /\ pc' = "discover"
    /\ UNCHANGED <<fsVars, envVars, discErr, browser, pages, pagesToExport, idx,
                   successCount, failCount, fatal, expVars, logVars>>

\* const { pages, spaceName } = await getSpacePages(page, config.spaceUrl)
\* page.goto can reject; the space key is looked up; the listing is fetched
\* (not at all without a key).
Discover ==
    /\ pc = "discover"
    /\ \/ /\ Throws("discovery")
          /\ discErr' = "page.goto"
          /\ UNCHANGED pages
       \/ \E k \in KeyInputs, statusAt \in [RequestsFor(MaxPages) -> Statuses] :
             LET r == FetchPages(remote, statusAt)
             IN  /\ discErr' = DiscoveryError(k, r)
                 /\ IF DiscoveryFails(k, r)
                    THEN /\ Throws("discovery")
                         /\ UNCHANGED pages
                    ELSE /\ pages' = r.pages
                         /\ pc' = "spaceDir"
                         /\ UNCHANGED fatal
    /\ UNCHANGED <<fsVars, envVars, browser, history, pagesToExport, idx,
                   successCount, failCount, expVars, logVars>>

\* Setup Space Output Directory
SpaceOutputDir ==
    /\ pc = "spaceDir"
    /\ \/ /\ dirs # "space"
          /\ dirs' = "space"
          /\ pc' = "filter"
          /\ UNCHANGED fatal
       \/ /\ dirs # "space"
          /\ Throws("mkdirSpace")
          /\ UNCHANGED dirs
       \/ /\ dirs = "space"
          /\ pc' = "filter"
          /\ UNCHANGED <<dirs, fatal>>
    /\ UNCHANGED <<disk, files, authFile, envVars, discErr, browser, history, pages,
                   pagesToExport, idx, successCount, failCount, expVars, logVars>>

\* Filter out already exported pages; return when nothing is left.
FilterPages ==
    /\ pc = "filter"
    /\ pagesToExport' = PagesToExport(pages, history)
    /\ pc' = IF NothingToExport(pagesToExport') THEN "finally" ELSE "pagesList"
    /\ UNCHANGED <<fsVars, envVars, discErr, browser, history, pages, idx,
                   successCount, failCount, fatal, expVars, logVars>>

\* Save list for debug (pages-list.json), then successCount = failCount = 0.
SavePagesList ==
    /\ pc = "pagesList"
    /\ \/ /\ pc' = "loop"
          /\ UNCHANGED fatal
       \/ Throws("pagesList")
    /\ UNCHANGED <<fsVars, envVars, discErr, browser, history, pages, pagesToExport, idx,
                   successCount, failCount, expVars, logVars>>

\* Head of the export loop: call exportPageRobust for the next entry, or leave.
LoopHead ==
    /\ pc = "loop"
    /\ IF LoopContinues(idx, Len(pagesToExport))
       THEN /\ invoked' = Append(invoked, CandidateAt(pagesToExport, idx))
            /\ pc' = "export"
            /\ epc' = IF flow = "ui" THEN "navigate" ELSE "pageId"
       ELSE /\ pc' = "report"
            /\ UNCHANGED <<invoked, epc>>
    /\ UNCHANGED <<fsVars, envVars, discErr, runVars, success, trail, attempts, existed,
                   h0, outcomes, prevRun>>

\* ------------------------------------------------------------------ exportPageRobust

\* The page the running invocation was called with.
cur == invoked[Len(invoked)]

\* Output path computed for the page of the running invocation.
outputPath == pathOf[cur]

\* exportPageRobust returns ok to main().
Returns(ok) ==
    /\ success' = ok
    /\ outcomes' = Append(outcomes, ok)
    /\ epc' = "none"
    /\ pc' = "result"

\* Mutant: the wait for the download-ready link is left out.
StepSkippingReady(name, next) ==
    /\ trail' = Append(trail, name)
    /\ epc' = IF next = "await" THEN "capture" ELSE next
    /\ UNCHANGED <<pc, success, outcomes>>

\* A step of the sequence completed; go on with the step `next`.
Step(name, next) ==
    /\ trail' = Append(trail, name)
    /\ epc' = next
    /\ UNCHANGED <<pc, success, outcomes>>

\* A step threw inside the try block of exportPageRobust.
Fails(name) ==
    /\ trail' = Append(trail, name \o "!")
    /\ epc' = "catch"
    /\ UNCHANGED <<pc, success, outcomes>>

\* --- UI click-through (src/unnamed/part_002)

\* NAVIGATE: page.goto(pageUrl) and the settle delay
UiNavigate ==
    /\ pc = "export" /\ flow = "ui" /\ epc = "navigate"
    /\ attempts' = attempts + 1
    /\ \/ Step("navigate", "resolve")
       \/ Fails("navigate")
    /\ UNCHANGED <<fsVars, envVars, discErr, runVars, existed, h0, invoked, prevRun>>

\* RESOLVE_TITLE: title, breadcrumbs, final directory, output path
UiResolveTitle ==
    /\ pc = "export" /\ flow = "ui" /\ epc = "resolve"
    /\ \/ /\ Step("resolve", "check")
          /\ existed' = (files[outputPath] # "none")
       \/ /\ Fails("resolve")
          /\ UNCHANGED existed
    /\ UNCHANGED <<fsVars, envVars, discErr, runVars, attempts, h0, invoked, prevRun>>

\* CHECK_EXISTING: if (fs.existsSync(outputPath)) return true
UiCheckExisting ==
    /\ pc = "export" /\ flow = "ui" /\ epc = "check"
    /\ IF files[outputPath] # "none"
       THEN /\ Returns(TRUE)
            /\ trail' = Append(trail, "skip")
       ELSE Step("check", "actions")
    /\ UNCHANGED <<fsVars, envVars, discErr, runVars, attempts, existed, h0, invoked, prevRun>>

\* OPEN_ACTIONS_MENU: #more-actions-trigger visible within 10 s, click
UiOpenActionsMenu ==
    /\ pc = "export" /\ flow = "ui" /\ epc = "actions"
    /\ \/ Step("actions", "submenu")
       \/ Fails("actions")
    /\ UNCHANGED <<fsVars, envVars, discErr, runVars, attempts, existed, h0, invoked, prevRun>>

\* OPEN_EXPORT_SUBMENU: "Export" visible within 5 s, click
UiOpenExportSubmenu ==
    /\ pc = "export" /\ flow = "ui" /\ epc = "submenu"
    /\ \/ Step("submenu", "trigger")
       \/ Fails("submenu")
    /\ UNCHANGED <<fsVars, envVars, discErr, runVars, attempts, existed, h0, invoked, prevRun>>

\* TRIGGER_EXPORT_TO_PDF: "Export to PDF" visible within 5 s, click
UiTriggerExportToPdf ==
    /\ pc = "export" /\ flow = "ui" /\ epc = "trigger"
    /\ \/ Step("trigger", "await")
       \/ Fails("trigger")
    /\ UNCHANGED <<fsVars, envVars, discErr, runVars, attempts, existed, h0, invoked, prevRun>>

\* AWAIT_SERVER_PROCESSING: #downloadableLink_dynamic visible within 60 s
UiAwaitProcessing ==
    /\ pc = "export" /\ flow = "ui" /\ epc = "await"
    /\ \/ Step("ready", "capture")
       \/ Fails("ready")
    /\ UNCHANGED <<fsVars, envVars, discErr, runVars, attempts, existed, h0, invoked, prevRun>>

\* CAPTURE_DOWNLOAD: arm waitForEvent('download'), click the link, await the
\* download.  The click can throw, the wait can time out.
UiCaptureDownload ==
    /\ pc = "export" /\ flow = "ui" /\ epc = "capture"
    /\ \/ /\ trail' = trail \o <<"arm", "clickLink", "download">>
          /\ epc' = "persist"
       \/ /\ trail' = trail \o <<"arm", "clickLink", "download!">>
          /\ epc' = "catch"
       \/ /\ trail' = trail \o <<"arm", "clickLink!">>
          /\ epc' = "catch"
    /\ UNCHANGED <<pc, success, outcomes>>
    /\ UNCHANGED <<fsVars, envVars, discErr, runVars, attempts, existed, h0, invoked, prevRun>>

\* PERSIST_ARTIFACT: download.saveAs(outputPath); return true
UiPersistArtifact ==
    /\ pc = "export" /\ flow = "ui" /\ epc = "persist"
    /\ \/ /\ files' = [files EXCEPT ![outputPath] = cur]
          /\ trail' = Append(trail, "saveAs")
          /\ Returns(TRUE)
       \/ /\ Fails("saveAs")
          /\ UNCHANGED files
    /\ UNCHANGED <<disk, dirs, authFile, envVars, discErr, runVars, attempts, existed,
                   h0, invoked, prevRun>>

\* catch: log, best-effort screenshot, return false
UiCatch ==
    /\ pc = "export" /\ flow = "ui" /\ epc = "catch"
    /\ trail' = Append(trail, "screenshot")
    /\ Returns(FALSE)
    /\ UNCHANGED <<fsVars, envVars, discErr, runVars, attempts, existed, h0, invoked, prevRun>>

\* --- direct export endpoint (src/src/exporter.ts)

\* Extract Page ID from URL; without one return false at once.
DirectPageId ==
    /\ pc = "export" /\ flow = "direct" /\ epc = "pageId"
    /\ IF HasPageId(cur)
       THEN Step("pageId", "goto")
       ELSE /\ Returns(FALSE)
            /\ trail' = Append(trail, "pageId!")
    /\ UNCHANGED <<fsVars, envVars, discErr, runVars, attempts, existed, h0, invoked, prevRun>>

\* Arm waitForEvent('download'), then page.goto(exportUrl), its errors ignored.
DirectGoto ==
    /\ pc = "export" /\ flow = "direct" /\ epc = "goto"
    /\ attempts' = attempts + 1
    /\ trail' = trail \o <<"arm", "navigate">>
    /\ epc' = "download"
    /\ UNCHANGED <<pc, success, outcomes>>
    /\ UNCHANGED <<fsVars, envVars, discErr, runVars, existed, h0, invoked, prevRun>>

\* const download = await downloadPromise
DirectAwaitDownload ==
    /\ pc = "export" /\ flow = "direct" /\ epc = "download"
    /\ \/ Step("download", "save")
       \/ Fails("download")
    /\ UNCHANGED <<fsVars, envVars, discErr, runVars, attempts, existed, h0, invoked, prevRun>>

\* Output path from the suggested filename; an existing file is overwritten.
DirectSave ==
    /\ pc = "export" /\ flow = "direct" /\ epc = "save"
    /\ existed' = (files[outputPath] # "none")
    /\ \/ /\ files' = [files EXCEPT ![outputPath] = cur]
          /\ trail' = Append(trail, "saveAs")
          /\ Returns(TRUE)
       \/ /\ Fails("saveAs")
          /\ UNCHANGED files
    /\ UNCHANGED <<disk, dirs, authFile, envVars, discErr, runVars, attempts,
                   h0, invoked, prevRun>>

\* catch: log, best-effort screenshot error_<pageId>.png, return false
DirectCatch ==
    /\ pc = "export" /\ flow = "direct" /\ epc = "catch"
    /\ trail' = Append(trail, "screenshot")
    /\ Returns(FALSE)
    /\ UNCHANGED <<fsVars, envVars, discErr, runVars, attempts, existed, h0, invoked, prevRun>>

\* ------------------------------------------------------------------ main(), after the call

\* if (success) {successCount++; history[p.url] = true; saveHistory(history)}
\* else failCount++;  then the pacing delay and the next entry.
\* writeFileSync can throw before it touched the file or after truncating it.
HandleResult ==
    /\ pc = "result"
    /\ IF ShouldMark(success)
       THEN /\ successCount' = successCount + 1
            /\ history' = markDone(history, cur)
            /\ UNCHANGED failCount
            /\ \/ /\ disk' = saveHistory(history')
                  /\ idx' = idx + 1
                  /\ pc' = "loop"
                  /\ UNCHANGED fatal
               \/ /\ disk' \in {disk, TornFile}
                  /\ Throws("saveHistory")
                  /\ UNCHANGED idx
       ELSE /\ failCount' = failCount + 1
            /\ idx' = idx + 1
            /\ pc' = "loop"
            /\ UNCHANGED <<successCount, history, disk, fatal>>
    /\ trail' = <<>>
    /\ attempts' = 0
    /\ existed' = FALSE
    /\ UNCHANGED <<files, dirs, authFile, envVars, discErr, browser, pages, pagesToExport,
                   epc, success, logVars>>

\* "=== Export Complete ===" and the two counters
Report ==
    /\ pc = "report"
    /\ pc' = "finally"
    /\ UNCHANGED <<fsVars, envVars, discErr, runVars, expVars, logVars>>

\* finally { await browser.close() }
Finally ==
    /\ pc = "finally"
    /\ browser' = "closed"
    /\ pc' = "done"
    /\ UNCHANGED <<fsVars, envVars, discErr, history, pages, pagesToExport, idx,
                   successCount, failCount, fatal, expVars, logVars>>

\* The process dies (kill, power loss, host crash) wherever it is.  Dying
\* inside saveHistory's writeFileSync leaves the old file or a truncated one.
Crash ==
    /\ pc \notin {"idle", "done", "crashed"}
    /\ pc' = "crashed"
    /\ IF pc = "result" /\ ShouldMark(success)
       THEN disk' \in {disk, TornFile}
       ELSE UNCHANGED disk
    /\ UNCHANGED <<files, dirs, authFile, envVars, discErr, runVars, expVars, logVars>>

Next ==
    \/ StartRun
    \/ EnsureOutputDir
    \/ AuthCheck
    \/ Launch
    \/ NewContext
    \/ NewPage
    \/ LoadHistory
    \/ Discover
    \/ SpaceOutputDir
    \/ FilterPages
    \/ SavePagesList
    \/ LoopHead
    \/ UiNavigate
    \/ UiResolveTitle
    \/ UiCheckExisting
    \/ UiOpenActionsMenu
    \/ UiOpenExportSubmenu
    \/ UiTriggerExportToPdf
    \/ UiAwaitProcessing
    \/ UiCaptureDownload
    \/ UiPersistArtifact
    \/ UiCatch
    \/ DirectPageId
    \/ DirectGoto
    \/ DirectAwaitDownload
    \/ DirectSave
    \/ DirectCatch
    \/ HandleResult
    \/ Report
    \/ Finally
    \/ Crash

Spec == Init /\ [][Next]_vars

\* ------------------------------------------------------------------ functions applied on their own

\* Everything but fcall.
mainVars == <<fsVars, remote, pathOf, flow, retryOnError, pc, runVars, expVars,
              logVars, discErr>>

\* main() has not been started, on an empty output tree.
MainIdle ==
    /\ remote = <<>>
    /\ pathOf = [u \in Urls |-> "p1"]
    /\ flow = "ui"
    /\ retryOnError = FALSE
    /\ authFile = FALSE
    /\ dirs = "none"
    /\ disk = [st |-> "missing", map |-> EmptyHistory]
    /\ files = NoFiles
    /\ pc = "idle"
    /\ browser = "none"
    /\ history = EmptyHistory
    /\ pages = <<>>
    /\ pagesToExport = <<>>
    /\ idx = 1
    /\ successCount = 0
    /\ failCount = 0
    /\ fatal = "none"
    /\ epc = "none"
    /\ success = FALSE
    /\ trail = <<>>
    /\ attempts = 0
    /\ existed = FALSE
    /\ h0 = EmptyHistory
    /\ invoked = <<>>
    /\ outcomes = <<>>
    /\ prevRun = "none"
    /\ discErr = "none"

\* --- the listing loop of getSpacePages

\* Most items the space holds.
MaxItems == 120

\* The items of a space holding n pages, in listing order.
Items(n) == [i \in 1..n |-> i]

\* A listing of n items; the failAt-th response (if any) has a status other than 200.
ListingInputs ==
    {[n |-> n, failAt |-> 0, status |-> 200] : n \in 0..MaxItems}
    \cup [n : 0..MaxItems, failAt : RequestsFor(MaxItems), status : Statuses \ {200}]

StatusAt(in) == [k \in RequestsFor(MaxItems) |-> IF k = in.failAt THEN in.status ELSE 200]

NoListing == [error |-> "none", pages |-> <<>>, requests |-> <<>>]

InitListing ==
    /\ MainIdle
    /\ fcall \in {[fn |-> "FetchPages", in |-> i, done |-> FALSE, out |-> NoListing] :
                    i \in ListingInputs}

ApplyFetchPages ==
    /\ fcall.fn = "FetchPages"
    /\ ~fcall.done
    /\ fcall' = [fcall EXCEPT !.done = TRUE,
                              !.out = FetchPages(Items(fcall.in.n), StatusAt(fcall.in))]
    /\ UNCHANGED mainVars

NextListing == ApplyFetchPages

SpecListing == InitListing /\ [][NextListing]_vars

\* --- space key and space name of getSpacePages

\* Characters of the enumerated header and title texts.
NameChars == {" ", "E"}

NameTexts == SeqsUpTo(NameChars, MaxText)

NameInputs ==
    [header : {[state |-> "absent", text |-> <<>>], [state |-> "throws", text |-> <<>>]}
                \cup {[state |-> "present", text |-> t] : t \in NameTexts},
     title : {<<t>> : t \in NameTexts} \cup {<<t, <<"C">> >> : t \in NameTexts},
     api : {[ok |-> FALSE, name |-> <<>>], [ok |-> TRUE, name |-> <<>>],
            [ok |-> TRUE, name |-> <<"A">>]}]

NoSpace == [error |-> "none", spaceKey |-> <<>>, spaceName |-> <<>>,
            pages |-> <<>>, requests |-> <<>>]

InitSpace ==
    /\ MainIdle
    /\ fcall \in {[fn |-> "getSpacePages", in |-> [key |-> k, name |-> nm],
                   done |-> FALSE, out |-> NoSpace] : k \in KeyInputs, nm \in NameInputs}

\* The space is empty and its listing answers 200.
ApplyGetSpacePages ==
    /\ fcall.fn = "getSpacePages"
    /\ ~fcall.done
    /\ fcall' = [fcall EXCEPT !.done = TRUE,
                              !.out = getSpacePages(fcall.in.key, fcall.in.name, <<>>,
                                                    [j \in RequestsFor(0) |-> 200])]
    /\ UNCHANGED mainVars

NextSpace == ApplyGetSpacePages

SpecSpace == InitSpace /\ [][NextSpace]_vars

\* --- the artifact directory of exportPageRobust (src/unnamed/part_002)

UpperCase == <<"A", "B", "C", "D", "E", "F", "G", "H", "I", "J", "K", "L", "M",
               "N", "O", "P", "Q", "R", "S", "T", "U", "V", "W", "X", "Y", "Z">>
LowerCase == <<"a", "b", "c", "d", "e", "f", "g", "h", "i", "j", "k", "l", "m",
               "n", "o", "p", "q", "r", "s", "t", "u", "v", "w", "x", "y", "z">>
Digits == {"0", "1", "2", "3", "4", "5", "6", "7", "8", "9"}

Range(f) == {f[i] : i \in DOMAIN f}

\* /[^a-z0-9]/gi : everything but the ASCII letters of either case and the digits
NotAlnum(c) == c \notin Range(LowerCase) \cup Range(UpperCase) \cup Digits

\* String.prototype.toLowerCase, character by character
ToLower(c) ==
    IF c \in Range(UpperCase)
    THEN LowerCase[CHOOSE i \in DOMAIN UpperCase : UpperCase[i] = c]
    ELSE c

\* Mutant: the text is not lowercased.
sanitizeFilenameKeepCase(name) ==
    [i \in DOMAIN name |-> IF NotAlnum(name[i]) THEN "_" ELSE name[i]]

\* name.replace(/[^a-z0-9]/gi, '_').toLowerCase()
sanitizeFilename(name) ==
    LET replaced == [i \in DOMAIN name |-> IF NotAlnum(name[i]) THEN "_" ELSE name[i]]
    IN  [i \in DOMAIN replaced |-> ToLower(replaced[i])]

\* for (i < count) { text = textContent(); if (text) breadcrumbTexts.push(text.trim()) }
\* A link without text (null or '') is passed over.
RECURSIVE BreadcrumbTexts(_)
BreadcrumbTexts(links) ==
    IF links = <<>> THEN <<>>
    ELSE (IF Head(links) = <<>> THEN <<>> ELSE <<Trim(Head(links))>>)
         \o BreadcrumbTexts(Tail(links))

\* if (breadcrumbTexts.length > 0) breadcrumbTexts.shift()
DropSpaceRoot(texts) == IF Len(texts) > 0 THEN Tail(texts) ELSE texts

\* path.join(...parts): zero-length parts are ignored; with nothing left the
\* result is '.', the directory joined onto.  A path is the sequence of its
\* directory names (sanitized names hold no separator and no dot).
PathJoin(parts) == SelectSeq(parts, LAMBDA x : x # <<>>)

\* relativePath = path.join(...breadcrumbTexts.map(sanitizeFilename)), breadcrumbTexts
\* being the trail without its first entry
RelativePath(texts) ==
    LET rest == DropSpaceRoot(texts)
    IN  PathJoin([i \in DOMAIN rest |-> sanitizeFilename(rest[i])])

\* config.outputDir / spaceOutputDir as handed to exportPageRobust
OutputDir == <<<<"o", "u", "t">>>>

\* finalDir = path.join(outputDir, relativePath)
FinalDir(outputDir, texts) == outputDir \o RelativePath(texts)

\* Characters of the enumerated link texts: a lowercase letter, an uppercase
\* letter, white space, a separator.
CrumbChars == {"a", "B", " ", "/"}

SpaceNameText == <<"S", "p", "a", "c", "e", " ", "N", "a", "m", "e">>
EngineeringText == <<"E", "n", "g", "i", "n", "e", "e", "r", "i", "n", "g">>
RFCsText == <<"R", "F", "C", "s">>
Q3Text == <<"Q", "3", "/", "7", " ", "P", "l", "a", "n">>

\* Link texts of the breadcrumb bar: every short bar, and two bars of real names.
CrumbInputs ==
    SeqsUpTo(SeqsUpTo(CrumbChars, MaxText), MaxCrumbs)
    \cup {<<SpaceNameText, EngineeringText, RFCsText>>, <<SpaceNameText, Q3Text>>}

InitBreadcrumbs ==
    /\ MainIdle
    /\ fcall \in {[fn |-> "FinalDir", in |-> t, done |-> FALSE, texts |-> <<>>, out |-> <<>>] :
                    t \in CrumbInputs}

ApplyFinalDir ==
    /\ fcall.fn = "FinalDir"
    /\ ~fcall.done
    /\ fcall' = [fcall EXCEPT !.done = TRUE,
                              !.texts = BreadcrumbTexts(fcall.in),
                              !.out = FinalDir(OutputDir, BreadcrumbTexts(fcall.in))]
    /\ UNCHANGED mainVars

NextBreadcrumbs == ApplyFinalDir

SpecBreadcrumbs == InitBreadcrumbs /\ [][NextBreadcrumbs]_vars

\* --- one call of the per-page export, whatever its argument

\* The three per-page exports of the repository: exportPageRobust of
\* src/unnamed/part_002, exportPageRobust of src/src/exporter.ts, and the
\* older exportPage of src/src/exporter.ts.
Exports == {"ui", "direct", "legacy"}

\* Statements of each export that can throw ("none": nothing throws).
ThrowingSteps(impl) ==
    IF impl = "ui"
    THEN {"none", "navigate", "resolve", "actions", "submenu", "trigger", "ready",
          "clickLink", "download", "saveAs"}
    ELSE IF impl = "direct"
    THEN {"none", "navigate", "download", "saveAs"}
    ELSE {"none", "navigate", "title", "actions", "trigger", "confirm", "download", "saveAs"}

\* One call: the export, what its url argument looks like (does /pages\/(\d+)/
\* match, does new URL(pageUrl) accept it), the statement that throws, whether
\* a file is at the output path, whether the confirmation dialog shows
\* (exportPage only), whether page.screenshot throws.
ExportInputs ==
    {i \in [impl : Exports, pageId : BOOLEAN, parses : BOOLEAN,
            failAt : UNION {ThrowingSteps(e) : e \in Exports},
            existing : BOOLEAN, modal : BOOLEAN, screenshotFails : BOOLEAN] :
        i.failAt \in ThrowingSteps(i.impl)}

\* How a call ends: "true" / "false" returned or "thrown"; whether the
\* artifact was written; whether a waitForEvent('download') promise it created
\* was never awaited.
Ended(result, written, pending) ==
    [result |-> result, written |-> written, pending |-> pending]

\* part_002: everything is inside one try; the catch takes the screenshot in a
\* try of its own and returns false.
exportPageRobustUi(in) ==
    IF in.failAt \in {"navigate", "resolve"} THEN Ended("false", FALSE, FALSE)
    ELSE IF in.existing THEN Ended("true", FALSE, FALSE)
    ELSE IF in.failAt = "none" THEN Ended("true", TRUE, FALSE)
    ELSE Ended("false", FALSE, in.failAt = "clickLink")

\* exporter.ts exportPageRobust: the page id match and new URL(pageUrl) come
\* before the try; errors of page.goto are ignored; the rest is caught.
exportPageRobustDirect(in) ==
    IF ~in.pageId THEN Ended("false", FALSE, FALSE)
    ELSE IF ~in.parses THEN Ended("thrown", FALSE, FALSE)
    ELSE IF in.failAt \in {"download", "saveAs"} THEN Ended("false", FALSE, FALSE)
    ELSE Ended("true", TRUE, FALSE)

\* exporter.ts exportPage: after the 'Export to PDF' click an inner try arms
\* the listener, confirms in the dialog, awaits the download and saves; without
\* a dialog it throws; its catch is empty and `return true` follows it.
exportPage(in) ==
    IF in.failAt \in {"navigate", "title"} THEN Ended("false", FALSE, FALSE)
    ELSE IF in.existing THEN Ended("true", FALSE, FALSE)
    ELSE IF in.failAt \in {"actions", "trigger"} THEN Ended("false", FALSE, FALSE)
    ELSE IF ~in.modal THEN Ended("true", FALSE, FALSE)
    ELSE IF in.failAt = "confirm" THEN Ended("true", FALSE, TRUE)
    ELSE IF in.failAt \in {"download", "saveAs"} THEN Ended("true", FALSE, FALSE)
    ELSE Ended("true", TRUE, FALSE)

PerPageExport(in) ==
    IF in.impl = "ui" THEN exportPageRobustUi(in)
    ELSE IF in.impl = "direct" THEN exportPageRobustDirect(in)
    ELSE exportPage(in)

InitExport ==
    /\ MainIdle
    /\ fcall \in {[fn |-> "export", in |-> i, done |-> FALSE,
                   out |-> Ended("false", FALSE, FALSE)] : i \in ExportInputs}

ApplyExport ==
    /\ fcall.fn = "export"
    /\ ~fcall.done
    /\ fcall' = [fcall EXCEPT !.done = TRUE, !.out = PerPageExport(fcall.in)]
    /\ UNCHANGED mainVars

NextExport == ApplyExport

SpecExport == InitExport /\ [][NextExport]_vars

\* --- the list of pages getSpacePages returns, by either strategy

\* Most anchors of the scraped document.
MaxAnchors == 2

\* The listing at the k-th request of a space of n pages when `inserted` pages
\* are created ahead of them between two requests: the pages present from the
\* start are 1..n, the ones created meanwhile are 0, -1, ...
LiveListing(n, inserted, k) ==
    [i \in 1..(n + inserted * (k - 1)) |-> i - inserted * (k - 1)]

\* Requests a listing that grows by one page per request can take.
LiveRequests == 1..((MaxItems \div limit) + 2)

\* a.href, as the parts the filter looks for.
Hrefs == {<<"/pages/", "1">>, <<"/pages/", "2">>, <<"/pages/", "edit", "1">>,
          <<"/pages/", "1", "?">>, <<"/display/", "1">>}

\* a.innerText.trim()
LinkTitles == {"", "T", "U"}

Anchors == [title : LinkTitles, url : Hrefs]

\* item.url.includes('/pages/') && !item.url.includes('/pages/edit') && !item.url.includes('?')
IsPageLink(item) ==
    /\ \E i \in 1..Len(item.url) : item.url[i] = "/pages/"
    /\ ~\E i \in 1..(Len(item.url) - 1) : item.url[i] = "/pages/" /\ item.url[i + 1] = "edit"
    /\ ~\E i \in 1..Len(item.url) : item.url[i] = "?"

\* anchors.map(...).filter(...)
RECURSIVE Links(_)
Links(anchors) ==
    IF Len(anchors) = 0 THEN <<>>
    ELSE IF IsPageLink(Head(anchors))
    THEN <<Head(anchors)>> \o Links(Tail(anchors))
    ELSE Links(Tail(anchors))

\* uniquePages.set(link.url, link): a new key is added last, a known key keeps
\* its place and takes the new value.
MapSet(entries, link) ==
    IF \E k \in 1..Len(entries) : entries[k].url = link.url
    THEN [k \in 1..Len(entries) |->
             IF entries[k].url = link.url THEN link ELSE entries[k]]
    ELSE Append(entries, link)

\* for (const link of links) if (link.title && link.url) uniquePages.set(...);
\* Array.from(uniquePages.values())
RECURSIVE UniquePages(_, _)
UniquePages(links, entries) ==
    IF Len(links) = 0 THEN entries
    ELSE UniquePages(Tail(links),
                     IF Head(links).title # "" /\ Len(Head(links).url) > 0
                     THEN MapSet(entries, Head(links))
                     ELSE entries)

DiscoveryListInputs ==
    [strategy : {"api"}, n : 0..MaxItems, inserted : {0, 1}, anchors : {<<>>}]
    \cup [strategy : {"scrape"}, n : {0}, inserted : {0}, anchors : SeqsUpTo(Anchors, MaxAnchors)]

NoList == [error |-> "none", urls |-> <<>>]

InitDiscoveryList ==
    /\ MainIdle
    /\ fcall \in {[fn |-> "getSpacePages.pages", in |-> i, done |-> FALSE, out |-> NoList] :
                    i \in DiscoveryListInputs}

\* The in-browser fetch with every response a 200; the url of an entry is
\* origin + pathPrefix + webui, one per page.
ApplyApiListing ==
    /\ fcall.fn = "getSpacePages.pages"
    /\ fcall.in.strategy = "api"
    /\ ~fcall.done
    /\ LET r == FetchPagesLive([k \in LiveRequests |->
                                   LiveListing(fcall.in.n, fcall.in.inserted, k)],
                               [k \in LiveRequests |-> 200])
       IN  fcall' = [fcall EXCEPT !.done = TRUE,
                                  !.out = [error |-> r.error, urls |-> r.pages]]
    /\ UNCHANGED mainVars

\* Extracting links and deduplicating them.
ApplyScrape ==
    /\ fcall.fn = "getSpacePages.pages"
    /\ fcall.in.strategy = "scrape"
    /\ ~fcall.done
    /\ LET unique == UniquePages(Links(fcall.in.anchors), <<>>)
       IN  fcall' = [fcall EXCEPT !.done = TRUE,
                                  !.out = [error |-> "none",
                                           urls |-> [k \in 1..Len(unique) |-> unique[k].url]]]
    /\ UNCHANGED mainVars

NextDiscoveryList == ApplyApiListing \/ ApplyScrape

SpecDiscoveryList == InitDiscoveryList /\ [][NextDiscoveryList]_vars

\* --- the scrolling loop of the scroll-and-scrape getSpacePages

\* const maxScrolls = 100
maxScrolls == 100

\* The 'Load more' button as an iteration finds it: count() = 0, present but
\* not visible, or visible.
LoadMoreStates == {"absent", "hidden", "visible"}

\* i < maxScrolls
ScrollGuard(i) == i < maxScrolls

\* await loadMore.count() > 0 && await loadMore.isVisible()
LoadMoreVisible(loadMore) == loadMore = "visible"

\* Mutant: the loop never takes the break.
ReachedBottomNever(heightChanged, loadMore) == FALSE

\* newHeight === previousHeight and no 'Load more' to click: break
ReachedBottom(heightChanged, loadMore) == ~heightChanged /\ ~LoadMoreVisible(loadMore)

\* Before the first iteration.  how: "running", or the way the loop was left
\* ("break", "limit", or "throws" when an awaited call of the body rejected).
InitScroll ==
    /\ MainIdle
    /\ fcall = [fn |-> "scroll", i |-> 0, iterations |-> 0, done |-> FALSE,
                how |-> "running", heightChanged |-> TRUE, loadMore |-> "absent"]

\* One pass through the body: scroll, wait, compare heights, click 'Load more'
\* or break.  The document decides the new height and the button's state.
ScrollIteration ==
    /\ fcall.fn = "scroll"
    /\ ~fcall.done
    /\ ScrollGuard(fcall.i)
    /\ \E heightChanged \in BOOLEAN, loadMore \in LoadMoreStates, throws \in BOOLEAN :
          LET seen == [fcall EXCEPT !.iterations = @ + 1,
                                    !.heightChanged = heightChanged,
                                    !.loadMore = loadMore]
          IN  fcall' = IF throws
                       THEN [seen EXCEPT !.done = TRUE, !.how = "throws"]
                       ELSE IF ReachedBottom(heightChanged, loadMore)
                       THEN [seen EXCEPT !.done = TRUE, !.how = "break"]
                       ELSE [seen EXCEPT !.i = @ + 1]
    /\ UNCHANGED mainVars

\* The loop condition fails: the safety limit ends the loop.
ScrollLimit ==
    /\ fcall.fn = "scroll"
    /\ ~fcall.done
    /\ ~ScrollGuard(fcall.i)
    /\ fcall' = [fcall EXCEPT !.done = TRUE, !.how = "limit"]
    /\ UNCHANGED mainVars

NextScroll == ScrollIteration \/ ScrollLimit

\* Every awaited call of the body settles (the waits are 2000 ms timers, the
\* click has Playwright's timeout), so the loop always takes its next step.
SpecScroll == InitScroll /\ [][NextScroll]_vars /\ WF_vars(NextScroll)

\* ------------------------------------------------------------------ properties

\* The run marked u: it is true in memory or on disk and was not when the run started.
MarkedInMemory(u) == history[u] = "true" /\ h0[u] # "true"
MarkedOnDisk(u) == DiskTrue(u) /\ h0[u] # "true"

\* exportPageRobust has returned true for u in this run.
SucceededFor(u) == \E i \in 1..Len(outcomes) : outcomes[i] /\ invoked[i] = u

\* C1: a key becomes true, in memory and on disk, only after exportPageRobust
\* returned true for that page in this run; the step that follows a return of
\* false leaves the ledger alone, in memory and on disk.
C1_MarkOnlyAfterSuccess ==
    /\ [](\A u \in Urls : (MarkedInMemory(u) \/ MarkedOnDisk(u)) => SucceededFor(u))
    /\ [][(\A u \in Urls :
              (history[u] # "true" /\ history'[u] = "true" /\ h0'[u] # "true")
                  => (pc = "result" /\ success /\ cur = u))
          /\ ((pc = "result" /\ ~success) => (history' = history /\ disk' = disk))]_vars

\* C1 witness: a finished run that marked one page after its success and left a
\* failed page unmarked.
C1_Witness ==
    /\ pc = "done"
    /\ \E u \in Urls : MarkedInMemory(u) /\ MarkedOnDisk(u)
    /\ \E i \in 1..Len(outcomes) : ~outcomes[i] /\ history[invoked[i]] # "true"

\* The pages of P whose key in H is not true, in the order of P.
RECURSIVE Candidates(_, _)
Candidates(P, H) ==
    IF P = <<>> THEN <<>>
    ELSE (IF H[Head(P)] = "true" THEN <<>> ELSE <<Head(P)>>) \o Candidates(Tail(P), H)

\* main() is past the filter.
Filtered ==
    \/ pc \in {"pagesList", "loop", "export", "result", "report"}
    \/ pc \in {"finally", "done"} /\ fatal \in {"none", "pagesList", "saveHistory"}

\* C2: the to-do list is exactly the discovered pages whose key in the history
\* found on disk is not true (absent or false), in discovered order, and no page
\* whose key is true is passed to exportPageRobust.
C2_TodoIsNotTrue ==
    /\ Filtered => pagesToExport = Candidates(pages, h0)
    /\ \A i \in 1..Len(invoked) : h0[invoked[i]] # "true"

\* C2 witness: of two discovered pages the first is true in the ledger and the
\* second false; only the second was handed to exportPageRobust.
C2_Witness ==
    /\ pc = "result"
    /\ Len(pages) = 2
    /\ h0[pages[1]] = "true"
    /\ h0[pages[2]] = "false"
    /\ invoked = <<pages[2]>>

\* The previous run ran to its end with no page failed and every ledger write done.
AfterCompleteRun == prevRun \in {"complete", "nothingToDo"}

\* C3: in a run that follows a run which exported every page it had to and
\* persisted the ledger, exportPageRobust is never called and the ledger file
\* is never changed.
C3_SecondRunExportsNothing ==
    /\ [](AfterCompleteRun => invoked = <<>>)
    /\ [][AfterCompleteRun' => disk' = disk]_vars

\* C3 witness: the second run has ended, the first had exported pages, and two
\* pages were discovered again.
C3_Witness ==
    /\ prevRun = "complete"
    /\ pc = "done"
    /\ fatal = "none"
    /\ Len(pages) = 2

\* C4: a key that is true in the ledger file stays true in the ledger file.
C4_PersistedKeysStay ==
    [][\A u \in Urls : DiskTrue(u) => DiskTrue(u)']_vars

\* C5: after a crash the ledger file holds every page for which
\* exportPageRobust returned true in this run before the crash, the page in
\* flight (loop position idx) excepted.
C5_CrashLosesAtMostInFlight ==
    (pc = "crashed") =>
        \A i \in 1..Len(outcomes) :
            (outcomes[i] /\ i < idx /\ (idx <= Len(invoked) => invoked[i] # invoked[idx]))
                => DiskTrue(invoked[i])

\* C6: with retryOnError set, a page whose export fails is given up only after
\* maxRetries + 1 attempts, each starting at the navigation.
C6_RetryBound ==
    (pc = "result" /\ retryOnError /\ ~success /\ attempts >= 1)
        => attempts = maxRetries + 1

\* Thrown errors that end the run from the orchestrator's own file writes.
OrchestratorWriteErrors == {"pagesList", "saveHistory"}

Interactions ==
    {"actions", "submenu", "trigger", "ready", "arm", "clickLink", "download", "saveAs",
     "actions!", "submenu!", "trigger!", "ready!", "clickLink!", "download!", "saveAs!"}

\* C8: when an artifact is at the computed output path, exportPageRobust
\* returns true with no menu opened, no export triggered, no download captured
\* and the file not written.
C8_SkipExisting ==
    (pc = "result" /\ existed)
        => (success /\ \A i \in 1..Len(trail) : trail[i] \notin Interactions)

\* C9: a run that opened the browser ends with the browser closed.
C9_BrowserClosedOnExit ==
    (pc = "done" /\ browser # "none") => browser = "closed"

\* C10: the k-th call of exportPageRobust is for the k-th candidate, a call is
\* made only when every earlier call has returned, and at most one call is in
\* progress.
C10_SequentialInOrder ==
    /\ Len(invoked) <= Len(pagesToExport)
    /\ \A k \in 1..Len(invoked) : k <= Len(pagesToExport) => invoked[k] = pagesToExport[k]
    /\ Len(outcomes) <= Len(invoked)
    /\ Len(invoked) <= Len(outcomes) + 1
    /\ (Len(invoked) = Len(outcomes) + 1) <=> (epc # "none")

\* C10 witness: two different pages were exported one after the other.
C10_Witness ==
    /\ pc = "done"
    /\ Len(outcomes) = 2
    /\ invoked[1] # invoked[2]
    /\ invoked = pagesToExport

\* getSpacePages threw in this run.
DiscoveryFailed == discErr # "none"

\* C11: when discovery fails (no space key, a listing response that is not a
\* success, a failed navigation) the run aborts: exportPageRobust is never
\* called, and neither the in-memory history nor the ledger file is modified.
C11_DiscoveryFailureAborts ==
    /\ [](DiscoveryFailed =>
            /\ pc \in {"finally", "done", "crashed"}
            /\ fatal = "discovery"
            /\ invoked = <<>>
            /\ history = h0)
    /\ [][DiscoveryFailed' => disk' = disk]_vars

\* A run ended after a listing response that was not a success.
C11_Witness ==
    /\ pc = "done"
    /\ discErr = "API Fetch failed"
    /\ disk.st = "ok"
    /\ \E u \in Urls : disk.map[u] = "true"
    /\ Len(remote) = MaxPages

\* Offsets 0, limit, 2*limit, ... of the first k requests.
Offsets(k) == [j \in 1..k |-> (j - 1) * limit]

\* The listing was fetched and the failAt-th request was really issued.
FailedAtRequest == fcall.done /\ fcall.in.failAt \in RequestsFor(fcall.in.n)

\* C12: a 401 or 403 answer to any request of the pagination ends discovery at
\* that request (it is the last offset asked, asked once), with the
\* authentication error and no entries; no other failure gives that error.
C12_AuthFailureEndsDiscovery ==
    FailedAtRequest =>
        IF fcall.in.status \in {401, 403}
        THEN /\ fcall.out.error = "Authentication failed"
             /\ fcall.out.requests = Offsets(fcall.in.failAt)
             /\ fcall.out.pages = <<>>
        ELSE fcall.out.error \notin {"none", "Authentication failed"}

\* A 403 at the second request, after a full first page.
C12_Witness ==
    /\ FailedAtRequest
    /\ fcall.in.status = 403
    /\ fcall.in.failAt = 2
    /\ fcall.out.requests = <<0, 50>>

\* C13: with every response a success, a space of N items takes exactly
\* floor(N/50)+1 requests at offsets 0, 50, 100, ... and all N entries are
\* returned in order; 120 items take the offsets 0, 50, 100 and 50 items a
\* second, empty request at offset 50.
C13_PaginationRequests ==
    (fcall.done /\ fcall.in.failAt = 0) =>
        /\ fcall.out.error = "none"
        /\ Len(fcall.out.requests) = (fcall.in.n \div 50) + 1
        /\ fcall.out.requests = Offsets(Len(fcall.out.requests))
        /\ fcall.out.pages = Items(fcall.in.n)
        /\ (fcall.in.n = 120) => (fcall.out.requests = <<0, 50, 100>>)
        /\ (fcall.in.n = 50) => (fcall.out.requests = <<0, 50>>)

\* The two listings the claim names have been fetched.
C13_Witness ==
    /\ fcall.done
    /\ fcall.in.failAt = 0
    /\ fcall.in.n \in {50, 120}
    /\ Len(fcall.out.pages) = fcall.in.n

\* The ledger file is absent or does not parse.
NoUsableLedger == disk.st \in {"missing", "corrupt"}

\* C14: with the ledger file absent or unparsable, loading it neither throws
\* nor stops the run: main() goes on to discovery with an empty history, and
\* the to-do list is then every discovered page.
C14_UnreadableLedgerIsEmpty ==
    /\ []((pc = "discover" /\ NoUsableLedger) => (history = EmptyHistory /\ fatal = "none"))
    /\ []((Filtered /\ h0 = EmptyHistory) => pagesToExport = pages)
    /\ [][(pc = "load" /\ NoUsableLedger) => pc' \in {"discover", "crashed"}]_vars

\* A run that found a truncated ledger exported the first of its pages.
C14_Witness ==
    /\ pc = "result"
    /\ idx = 1
    /\ success
    /\ disk.st = "corrupt"
    /\ Len(pagesToExport) = MaxPages

\* Clicks that can start the download: the 'Export to PDF' entry and the
\* download-ready link.
DownloadClicks == {"trigger", "clickLink"}

\* C15: whenever exportPageRobust has clicked something that can start the
\* download, it had armed a download listener before that click.
C15_ListenerArmedBeforeClick ==
    \A i \in 1..Len(trail) :
        trail[i] \in DownloadClicks => \E j \in 1..(i - 1) : trail[j] = "arm"

\* download.saveAs(outputPath) threw in the invocation that just returned.
ArtifactWriteFailed == \E i \in 1..Len(trail) : trail[i] = "saveAs!"

\* fs.writeFileSync threw in saveHistory during this run.
LedgerWriteFailed == fatal = "saveHistory"

\* C16: a failed write of the artifact or of the ledger fails that page only:
\* the invocation returns false without raising a run-level error, and a run
\* in which a ledger write failed still hands every candidate page to
\* exportPageRobust before it ends.
C16_WriteFailureIsPageFailure ==
    /\ (pc = "result" /\ ArtifactWriteFailed) => (~success /\ fatal = "none")
    /\ (pc = "done" /\ LedgerWriteFailed) =>
           \A i \in 1..Len(pagesToExport) :
               \E j \in 1..Len(invoked) : invoked[j] = pagesToExport[i]

\* A directory name as the claim words it: lowercased, with '_' for every
\* character outside [a-z0-9].
ClaimName(t) ==
    [i \in DOMAIN t |->
        IF t[i] \in Range(LowerCase) \cup Digits THEN t[i]
        ELSE IF \E k \in DOMAIN UpperCase : UpperCase[k] = t[i]
             THEN LowerCase[CHOOSE k \in DOMAIN UpperCase : UpperCase[k] = t[i]]
             ELSE "_"]

\* The destination directory followed by one level per entry of the trail after
\* the first, in trail order (an entry without characters names no level).
RECURSIVE ClaimDir(_, _)
ClaimDir(dir, entries) ==
    IF entries = <<>> THEN dir
    ELSE ClaimDir(IF Head(entries) = <<>> THEN dir ELSE Append(dir, ClaimName(Head(entries))),
                  Tail(entries))

\* C17: the artifact directory is the destination directory followed by the
\* entries of the breadcrumb trail after the first, sanitized, in order; the
\* trail Space Name, Engineering, RFCs gives engineering/rfcs and an empty
\* trail gives the destination directory itself.
C17_ArtifactDirectory ==
    fcall.done =>
        /\ fcall.out = ClaimDir(OutputDir, IF fcall.texts = <<>> THEN <<>> ELSE Tail(fcall.texts))
        /\ (fcall.texts = <<>>) => (fcall.out = OutputDir)
        /\ (fcall.texts = <<SpaceNameText, EngineeringText, RFCsText>>) =>
              fcall.out = OutputDir \o <<<<"e", "n", "g", "i", "n", "e", "e", "r", "i", "n", "g">>, <<"r", "f", "c", "s">>>>

\* The directory of the claim's example trail has been computed.
C17_Witness ==
    /\ fcall.done
    /\ fcall.in = <<SpaceNameText, EngineeringText, RFCsText>>
    /\ Len(fcall.out) = 3

\* The key the claim's precedence picks: url segment, else meta content, else
\* AJS global; <<>> when none of them holds one.
ClaimKey(k) ==
    IF k.spaces # <<>> THEN k.spaces
    ELSE IF k.display # <<>> THEN k.display
    ELSE IF k.meta.el /\ k.meta.content # <<>> THEN k.meta.content
    ELSE IF k.ajs.ok /\ k.ajs.value # <<>> THEN k.ajs.value
    ELSE <<>>

\* C18: the space key is the url's path segment if it has one, else the meta
\* tag's content, else the AJS global; with none of them discovery throws and
\* no listing request is issued.
C18_SpaceKeyPrecedence ==
    fcall.done =>
        IF ClaimKey(fcall.in.key) = <<>>
        THEN fcall.out.error # "none" /\ fcall.out.requests = <<>>
        ELSE fcall.out.error = "none" /\ fcall.out.spaceKey = ClaimKey(fcall.in.key)

\* None of the three places gives a display name.
NoNameAnywhere(nm) ==
    /\ nm.header.state \in {"absent", "throws"} \/ Trim(nm.header.text) = <<>>
    /\ Len(nm.title) < 2 \/ Trim(nm.title[Len(nm.title) - 1]) = <<>>
    /\ ~nm.api.ok \/ nm.api.name = <<>>

\* C19: with a space key found, getSpacePages does not throw whatever the
\* header, the title and the space lookup give, and when none of the three
\* gives a name the spaceName it returns is the space key.
C19_NameFallsBackToKey ==
    (fcall.done /\ SpaceKey(fcall.in.key).error = "none") =>
        /\ fcall.out.error = "none"
        /\ NoNameAnywhere(fcall.in.name) => fcall.out.spaceName = fcall.out.spaceKey

\* The steps of the UI click-through, in the order the claim gives them.
UiHappyPath ==
    <<"navigate", "resolve", "check", "actions", "submenu", "trigger", "ready",
      "download", "saveAs">>

\* The steps in the invocation's trail (arming and clicking belong to the capture step).
StepsDone == SelectSeq(trail, LAMBDA x : x \notin {"arm", "clickLink"})

\* Some step of the running invocation threw, or it returned early.
OffHappyPath ==
    \E i \in 1..Len(trail) :
        trail[i] \in {"navigate!", "resolve!", "actions!", "submenu!", "trigger!",
                      "ready!", "clickLink!", "download!", "saveAs!", "skip", "screenshot"}

\* C20: in the UI click-through, as long as nothing failed and no existing file
\* was found, the steps done so far are a beginning of navigate, resolve, check,
\* actions menu, export submenu, Export to PDF, ready signal, download, save;
\* a successful export did all of them; and no download is captured and no
\* artifact written without the ready signal seen before.
C20_UiHappyPathOrder ==
    (flow = "ui" /\ pc \in {"export", "result"}) =>
        /\ ~OffHappyPath =>
              /\ Len(StepsDone) <= Len(UiHappyPath)
              /\ StepsDone = SubSeq(UiHappyPath, 1, Len(StepsDone))
        /\ (pc = "result" /\ success /\ ~OffHappyPath) => StepsDone = UiHappyPath
        /\ \A i \in 1..Len(trail) :
              trail[i] \in {"arm", "clickLink", "download", "saveAs"}
                  => \E j \in 1..(i - 1) : trail[j] = "ready"

\* A UI export went through all its steps and wrote the artifact.
C20_Witness ==
    /\ flow = "ui"
    /\ pc = "result"
    /\ success
    /\ Len(trail) > 0
    /\ trail[Len(trail)] = "saveAs"
    /\ files[outputPath] = cur

\* C21: whatever the url and whichever statement fails, the per-page export
\* ends by returning true or false, never by throwing.
C21_ExportNeverThrows ==
    fcall.done => fcall.out.result \in {"true", "false"}

\* A waitForEvent('download') promise of the invocation was created and the
\* invocation never got to await it.
PendingDownloadWait ==
    \E i \in 1..Len(trail) :
        /\ trail[i] = "arm"
        /\ \A j \in (i + 1)..Len(trail) : trail[j] \notin {"download", "download!"}

\* C22: when exportPageRobust has returned, every download wait it armed has
\* been awaited to its end (the download came or the wait timed out inside
\* the invocation).
C22_NoPendingDownloadWait ==
    pc = "result" => ~PendingDownloadWait

\* C23: a per-page export that returns true leaves an artifact at the output
\* path: one that was there already, or the one it just wrote.
C23_SuccessHasArtifact ==
    (fcall.done /\ fcall.out.result = "true") => (fcall.in.existing \/ fcall.out.written)

\* The invocation that just returned found a file at its output path and skipped.
SkippedExisting == Len(trail) > 0 /\ trail[Len(trail)] = "skip"

\* C24: no page is reported exported on the strength of another page's
\* artifact: when the skip-existing return reports success, the file at the
\* page's output path is not one this tool wrote for a page with another url
\* (output paths of pages with different urls do not coincide).
C24_NoSharedOutputPath ==
    (pc = "result" /\ success /\ SkippedExisting) => files[outputPath] \in {cur, "old"}

\* C25: the list discovery returns holds no two entries with the same url,
\* whether it was fetched through the paginated listing or scraped.
C25_NoDuplicateUrls ==
    fcall.done =>
        \A i, j \in 1..Len(fcall.out.urls) :
            i # j => fcall.out.urls[i] # fcall.out.urls[j]

\* The filter has run and left no candidate.
NoCandidates ==
    /\ pc \in {"pagesList", "loop", "export", "result", "report", "finally", "done"}
    /\ fatal = "none"
    /\ Len(pagesToExport) = 0

\* C26: a run whose candidate set is empty goes from the filter straight to its
\* end: the export is never invoked, and no step of a run that has invoked no
\* export writes the history file.
C26_EmptyCandidateSetStops ==
    /\ [](NoCandidates => (pc \in {"finally", "done"} /\ invoked = <<>>))
    /\ [][invoked' = <<>> => disk' = disk]_vars

\* A run over a space whose pages are all marked true has ended.
C26_Witness ==
    /\ NoCandidates
    /\ pc = "done"
    /\ Len(pages) > 0

\* An iteration has just seen an unchanged height and no visible 'Load more'.
SawBottom == ~fcall.heightChanged /\ fcall.loadMore # "visible"

\* C27: the scrolling loop ends whatever the document does: it runs at most
\* 100 iterations, and the iteration that sees an unchanged height and no
\* visible 'Load more' is its last one.
C27_ScrollLoopTerminates ==
    /\ <>(fcall.done)
    /\ [](fcall.iterations <= 100)
    /\ [](fcall.how = "limit" => fcall.iterations = 100)
    /\ [][(fcall'.iterations = fcall.iterations + 1 /\ SawBottom') => fcall'.done]_vars

\* The height never settled: the limit ended the loop after 100 iterations.
C27_Witness ==
    /\ fcall.done
    /\ fcall.how = "limit"
    /\ fcall.iterations = 100
    /\ fcall.heightChanged

\* Keys whose value this run changed to true.
KeysSetTrue == {u \in Urls : history[u] = "true" /\ h0[u] # "true"}

\* C28: after k candidates have been processed successCount + failCount = k;
\* when the loop is over the sum is the size of the to-do list and successCount
\* is the number of keys this run set to true.
C28_CountersAccountForCandidates ==
    /\ (pc = "loop" /\ fatal = "none") => successCount + failCount = idx - 1
    /\ pc = "report" =>
          /\ successCount + failCount = Len(pagesToExport)
          /\ successCount = Cardinality(KeysSetTrue)
====
